---- MODULE Spec2Model ----
(***************************************************************************)
(* Invoisa backend (backend/app/main.py): the invoice table and its CRUD   *)
(* and CSV-import handlers, the list_invoices query pipeline (days         *)
(* overdue, risk score, filter, sort, page), and the e-mail template       *)
(* renderer.                                                               *)
(*                                                                         *)
(* Text is modelled as a sequence of one-character strings wherever the    *)
(* code looks inside it (invoice numbers, CSV cells, templates, context    *)
(* values).  A due_at text is modelled by the features parse_iso and       *)
(* days_overdue read from it: see DueText.  Scores are held in hundredths  *)
(* (0.51 is 51).  Columns no handler modelled here branches on             *)
(* (customer_name, customer_email, currency, issued_at) are left out of    *)
(* the invoice rows.                                                       *)
(***************************************************************************)
EXTENDS Integers, Sequences, FiniteSets, TLC

VARIABLES
    invoices,      \* table invoices, in rowid order
    invoice_seq,   \* AUTOINCREMENT high-water mark of invoices
    templates,     \* table email_templates, in rowid order
    template_seq,  \* AUTOINCREMENT high-water mark of email_templates
    now,           \* datetime.now(timezone.utc), in ticks
    call,          \* the request or call in flight (NoCall when there is none)
    response       \* what the last handler or function returned

vars == <<invoices, invoice_seq, templates, template_seq, now, call, response>>

\* Optional[T]: None, or Some(v) holding the value v
None == <<>>
Some(v) == <<v>>
Value(o) == o[1]
NoCall == [fn |-> "none"]
NoResponse == [op |-> "none"]

\* ---------------------------------------------------------------- bounds
MaxInvoices == 2
MaxInvoiceId == 3
MaxCsvRows == 2
TicksPerDay == 2
MaxRows == 2
MaxMixedRows == 1
MaxLimit == 2
MaxOffset == 3
MaxPieces == 3

\* ------------------------------------------------------------ sequences
RECURSIVE SeqsUpTo(_, _)
SeqsUpTo(S, n) ==
    IF n = 0 THEN {<<>>}
    ELSE LET shorter == SeqsUpTo(S, n - 1)
         IN  shorter \cup {Append(s, x) : s \in {t \in shorter : Len(t) = n - 1}, x \in S}

Range(s) == {s[i] : i \in DOMAIN s}

Max(a, b) == IF a >= b THEN a ELSE b
Min(a, b) == IF a <= b THEN a ELSE b

\* ------------------------------------------------------------------ text
Whitespace == {" "}

\* str.strip(): drop leading and trailing whitespace
RECURSIVE LStrip(_)
LStrip(s) == IF s /= <<>> /\ Head(s) \in Whitespace THEN LStrip(Tail(s)) ELSE s
RECURSIVE RStrip(_)
RStrip(s) ==
    IF s /= <<>> /\ s[Len(s)] \in Whitespace THEN RStrip(SubSeq(s, 1, Len(s) - 1)) ELSE s
Strip(s) == RStrip(LStrip(s))

Digits == <<"0", "1", "2", "3", "4", "5", "6", "7", "8", "9">>
DigitValue(c) == (CHOOSE i \in DOMAIN Digits : Digits[i] = c) - 1
IsDigit(c) == \E i \in DOMAIN Digits : Digits[i] = c

\* int(text) for a text of decimal digits; anything else raises ValueError
RECURSIVE DigitsValue(_)
DigitsValue(s) ==
    IF s = <<>> THEN 0 ELSE 10 * DigitsValue(SubSeq(s, 1, Len(s) - 1)) + DigitValue(s[Len(s)])
IntOf(s) ==
    LET t == Strip(s)
    IN  IF t /= <<>> /\ \A i \in DOMAIN t : IsDigit(t[i])
        THEN [ok |-> TRUE, value |-> DigitsValue(t)]
        ELSE [ok |-> FALSE, value |-> 0]

\* --------------------------------------------------------- invoice table
\* A due_at text, by what parse_iso and days_overdue read from it:
\*   form  "aware" (ISO-8601 with an offset), "naive" (ISO-8601 without one)
\*         or "junk" (datetime.fromisoformat raises ValueError);
\*   z     the text ends with "Z";
\*   t     the instant it names, in ticks (0 for junk).
\* A text ending in "Z" has the "Z" replaced by "+00:00" before parsing, so it
\* is aware whenever it parses.
DueText(form, z, t) == [form |-> form, z |-> z, t |-> t]

Numbers == {<<"A">>, <<" ", "A">>}
ApiDueAt == DueText("aware", TRUE, 0)

\* InvoiceIn, as far as the handlers here use it (amount_cents has ge=0)
InvoiceIn == [number : Numbers, amount_cents : {100}, due_at : {ApiDueAt}, status : {<<"o", "p", "e", "n">>}]

Row(id, number, amount_cents, due_at, status) ==
    [id |-> id, number |-> number, amount_cents |-> amount_cents,
     due_at |-> due_at, status |-> status]

NumbersOf(rows) == {rows[i].number : i \in DOMAIN rows}
IdsOf(rows) == {rows[i].id : i \in DOMAIN rows}

\* the rowid AUTOINCREMENT gives the next inserted row
NextId(rows, seq) == seq + 1

\* INSERT INTO invoices ...: the UNIQUE index on number raises IntegrityError,
\* and the failed statement leaves the table and the AUTOINCREMENT mark as they were
InsertInvoice(rows, seq, number, amount_cents, due_at, status) ==
    IF number \in NumbersOf(rows)
    THEN [ok |-> FALSE, rows |-> rows, seq |-> seq, id |-> 0]
    ELSE [ok |-> TRUE,
          rows |-> Append(rows, Row(NextId(rows, seq), number, amount_cents, due_at, status)),
          seq |-> NextId(rows, seq), id |-> NextId(rows, seq)]

\* POST /invoices
create_invoice(body) ==
    /\ LET r == InsertInvoice(invoices, invoice_seq, body.number, body.amount_cents,
                              body.due_at, body.status)
       IN  /\ r.seq <= MaxInvoiceId
           /\ Len(r.rows) <= MaxInvoices
           /\ invoices' = r.rows
           /\ invoice_seq' = r.seq
           /\ response' =
                IF r.ok
                THEN [op |-> "create_invoice", status |-> 200, body |-> body, id |-> r.id]
                ELSE [op |-> "create_invoice", status |-> 400, body |-> body,
                      detail |-> "Invoice number must be unique"]
    /\ UNCHANGED <<templates, template_seq, now, call>>

\* PUT /invoices/{invoice_id}
update_invoice(invoice_id, body) ==
    /\ IF invoice_id \notin IdsOf(invoices)
       THEN /\ response' = [op |-> "update_invoice", status |-> 404, id |-> invoice_id,
                            body |-> body, detail |-> "Not found"]
            /\ UNCHANGED invoices
       ELSE LET i == CHOOSE k \in DOMAIN invoices : invoices[k].id = invoice_id
                clash == \E k \in DOMAIN invoices : k /= i /\ invoices[k].number = body.number
            IN  IF clash
                THEN /\ response' = [op |-> "update_invoice", status |-> 400,
                                     id |-> invoice_id, body |-> body,
                                     detail |-> "Update failed"]
                     /\ UNCHANGED invoices
                ELSE /\ invoices' = [invoices EXCEPT ![i] =
                            Row(invoice_id, body.number, body.amount_cents,
                                body.due_at, body.status)]
                     /\ response' = [op |-> "update_invoice", status |-> 200,
                                     id |-> invoice_id, body |-> body]
    /\ UNCHANGED <<invoice_seq, templates, template_seq, now, call>>

\* the rows that are left after DELETE FROM invoices WHERE id = ?
DeleteRow(rows, id) ==
    LET keep == {i \in DOMAIN rows : rows[i].id /= id}
        RECURSIVE Kept(_)
        Kept(i) == IF i > Len(rows) THEN <<>>
                   ELSE IF i \in keep THEN <<rows[i]>> \o Kept(i + 1) ELSE Kept(i + 1)
    IN  Kept(1)

\* DELETE /invoices/{invoice_id}
delete_invoice(invoice_id) ==
    /\ invoices' = DeleteRow(invoices, invoice_id)
    /\ response' =
         IF Len(invoices') = Len(invoices)
         THEN [op |-> "delete_invoice", status |-> 404, id |-> invoice_id,
               detail |-> "Not found"]
         ELSE [op |-> "delete_invoice", status |-> 200, id |-> invoice_id]
    /\ UNCHANGED <<invoice_seq, templates, template_seq, now, call>>

\* One csv.DictReader row: a cell holds a text, or None where the line is short.
CsvRow(number, amount_cents, due_at, status) ==
    [number |-> number, amount_cents |-> amount_cents, due_at |-> due_at, status |-> status]

CsvDueAt == DueText("aware", FALSE, 0)
CsvRows ==
    { CsvRow(Some(<<" ", "A">>), Some(<<"7">>), Some(CsvDueAt), None),
      CsvRow(Some(<<"B">>), Some(<<"7", " ">>), Some(CsvDueAt), Some(<<"p", " ">>)),
      CsvRow(Some(<<"B">>), Some(<<"x">>), Some(CsvDueAt), Some(<<>>)) }

\* an upload: whether its file name ends in ".csv", whether its header has the
\* required columns, and its rows
Uploads ==
    {[is_csv_name |-> FALSE, has_columns |-> TRUE, csv |-> <<>>],
     [is_csv_name |-> TRUE, has_columns |-> FALSE, csv |-> <<>>]}
    \cup [is_csv_name : {TRUE}, has_columns : {TRUE}, csv : SeqsUpTo(CsvRows, MaxCsvRows)]

\* the parameter tuple of the INSERT: .strip() of None and int() of a
\* non-number raise, and the loop's except clause skips the row
RowValues(row) ==
    IF row.number = None \/ row.due_at = None \/ row.amount_cents = None
    THEN [ok |-> FALSE]
    ELSE IF ~IntOf(Value(row.amount_cents)).ok
    THEN [ok |-> FALSE]
    ELSE [ok |-> TRUE,
          number |-> Strip(Value(row.number)),
          amount_cents |-> IntOf(Value(row.amount_cents)).value,
          due_at |-> Value(row.due_at),
          status |-> IF row.status = None \/ row.status = Some(<<>>)
                     THEN <<"o", "p", "e", "n">> ELSE Strip(Value(row.status))]

\* Upsert without its ON CONFLICT clause and without the UNIQUE index behind it
UpsertAlwaysInserts(rows, seq, v) ==
    [rows |-> Append(rows, Row(NextId(rows, seq), v.number, v.amount_cents,
                               v.due_at, v.status)),
     seq |-> NextId(rows, seq)]

\* INSERT ... ON CONFLICT(number) DO UPDATE SET ... (number and id stay).  The
\* insert that meets the conflict has drawn its rowid already: SQLite leaves the
\* AUTOINCREMENT mark raised.
Upsert(rows, seq, v) ==
    IF v.number \in NumbersOf(rows)
    THEN LET i == CHOOSE k \in DOMAIN rows : rows[k].number = v.number
         IN  [rows |-> [rows EXCEPT ![i] =
                          Row(rows[i].id, rows[i].number, v.amount_cents, v.due_at, v.status)],
              seq |-> NextId(rows, seq)]
    ELSE [rows |-> Append(rows, Row(NextId(rows, seq), v.number, v.amount_cents,
                                    v.due_at, v.status)),
          seq |-> NextId(rows, seq)]

\* the for loop of import_invoices over the rows of the file
RECURSIVE ImportRows(_, _, _, _)
ImportRows(rows, seq, csv, inserted) ==
    IF csv = <<>> THEN [rows |-> rows, seq |-> seq, inserted |-> inserted]
    ELSE LET v == RowValues(Head(csv))
         IN  IF ~v.ok THEN ImportRows(rows, seq, Tail(csv), inserted)
             ELSE LET u == Upsert(rows, seq, v)
                  IN  ImportRows(u.rows, u.seq, Tail(csv), inserted + 1)

\* POST /import/invoices
import_invoices(is_csv_name, has_columns, csv) ==
    /\ LET r == ImportRows(invoices, invoice_seq, csv, 0)
       IN  r.seq <= MaxInvoiceId /\ Len(r.rows) <= MaxInvoices
    /\ IF ~is_csv_name
       THEN /\ response' = [op |-> "import_invoices", status |-> 400, csv |-> csv,
                            detail |-> "Please upload a CSV file."]
            /\ UNCHANGED <<invoices, invoice_seq>>
       ELSE IF ~has_columns
       THEN /\ response' = [op |-> "import_invoices", status |-> 400, csv |-> csv,
                            detail |-> "CSV must include columns"]
            /\ UNCHANGED <<invoices, invoice_seq>>
       ELSE LET r == ImportRows(invoices, invoice_seq, csv, 0)
            IN  /\ invoices' = r.rows
                /\ invoice_seq' = r.seq
                /\ response' = [op |-> "import_invoices", status |-> 200, csv |-> csv,
                                rows_processed |-> r.inserted]
    /\ UNCHANGED <<templates, template_seq, now, call>>

\* ------------------------------------------------------- list_invoices
\* datetime.fromisoformat and the branch on "Z" in front of it.  Only the
\* second call is inside the try: a ValueError of the first one escapes.
parse_iso(s) ==
    IF s.z
    THEN IF s.form = "junk"
         THEN [raised |-> "ValueError"]
         ELSE [raised |-> "no", aware |-> TRUE, t |-> s.t]
    ELSE IF s.form = "junk"
         THEN [raised |-> "HTTPException", status_code |-> 400, detail |-> s]
         ELSE [raised |-> "no", aware |-> (s.form = "aware"), t |-> s.t]

\* (now - due).days is the floor of the difference in days; an aware now minus
\* a naive due raises TypeError
days_overdue(due_at_iso, now_utc) ==
    LET due == parse_iso(due_at_iso)
    IN  IF due.raised /= "no" THEN due
        ELSE IF ~due.aware THEN [raised |-> "TypeError"]
        ELSE [raised |-> "no", days |-> Max(0, (now_utc - due.t) \div TicksPerDay)]

\* round(x) of Python for x = num / den: to the nearest integer, a tie to even
RoundHalfEven(num, den) ==
    LET q == num \div den
        r == num % den
    IN  IF 2 * r > den \/ (2 * r = den /\ q % 2 = 1) THEN q + 1 ELSE q

\* int(round(amount_cents * score)), the score in hundredths
Impact(amount_cents, score) == RoundHalfEven(amount_cents * score, 100)

\* the constants of risk_score: ceilings, weights and clamp, in hundredths
DaysCeiling == 120
AmountCeiling == 200000
WeightDays == 45
WeightAmount == 55
ScoreMin == 5
ScoreMax == 95

\* The sum 0.45 * d_norm + 0.55 * a_norm is a binary double.  Where the exact
\* sum is a decimal tie (x.xx5) the double lies just above or just below it and
\* round(_, 2) follows the double.  These are the (clamped) inputs, among the
\* ones drawn below, whose double lies above the tie; 0.45 * 60 / 120 = 0.225
\* is held as 0.22500000000000000555 and rounds to 0.23.
TieRoundsUp ==
    {<<0, 20000>>, <<4, 200000>>, <<60, 0>>, <<60, 40000>>, <<60, 200000>>, <<120, 20000>>}

\* risk_score without the clamp to [0.05, 0.95]
risk_scoreUnclamped(days_overdue_val, amount_cents) ==
    LET d == Min(DaysCeiling, days_overdue_val)
        a == Min(AmountCeiling, amount_cents)
        den == DaysCeiling * (AmountCeiling \div 40)
        sum == WeightDays * d * (AmountCeiling \div 40) + WeightAmount * a * (DaysCeiling \div 40)
        q == sum \div den
        r == sum % den
    IN  IF 2 * r > den \/ (2 * r = den /\ <<d, a>> \in TieRoundsUp) THEN q + 1 ELSE q

\* risk_score, in hundredths.  With d = min(days, 120) and a = min(amount,
\* 200000) the sum in hundredths is 45 * d / 120 + 55 * a / 200000, here over the
\* common denominator 120 * 200000 / 40.
risk_score(days_overdue_val, amount_cents) ==
    LET d == Min(DaysCeiling, days_overdue_val)
        a == Min(AmountCeiling, amount_cents)
        den == DaysCeiling * (AmountCeiling \div 40)
        sum == WeightDays * d * (AmountCeiling \div 40) + WeightAmount * a * (DaysCeiling \div 40)
        clamped == Max(ScoreMin * den, Min(ScoreMax * den, sum))
        q == clamped \div den
        r == clamped % den
    IN  IF 2 * r > den \/ (2 * r = den /\ <<d, a>> \in TieRoundsUp) THEN q + 1 ELSE q

\* one element of the list "enriched"
Enriched(r, d) ==
    [id |-> r.id, number |-> r.number, amount_cents |-> r.amount_cents,
     days_overdue |-> d, score |-> risk_score(d, r.amount_cents),
     impact |-> Impact(r.amount_cents, risk_score(d, r.amount_cents)),
     status_raw |-> r.status]

\* the loop that builds "enriched": the first row whose due_at raises ends it
RECURSIVE Enrich(_, _, _)
Enrich(rows, now_utc, done) ==
    IF rows = <<>> THEN [raised |-> "no", enriched |-> done]
    ELSE LET d == days_overdue(Head(rows).due_at, now_utc)
         IN  IF d.raised /= "no" THEN d
             ELSE Enrich(Tail(rows), now_utc, Append(done, Enriched(Head(rows), d.days)))

Open == <<"o", "p", "e", "n">>
Overdue == <<"o", "v", "e", "r", "d", "u", "e">>

\* the query parameters of GET /invoices
Query(status, aging_min, min_amount, max_amount, sort, limit, offset) ==
    [status |-> status, aging_min |-> aging_min, min_amount |-> min_amount,
     max_amount |-> max_amount, sort |-> sort, limit |-> limit, offset |-> offset]

\* filt reading the stored status text instead of the computed days
filtByStoredStatus(q, x) ==
    IF q.status = Some(Overdue) /\ x.status_raw /= Overdue THEN FALSE
    ELSE IF q.status = Some(Open) /\ x.status_raw /= Open THEN FALSE
    ELSE IF q.aging_min /= None /\ x.days_overdue < Value(q.aging_min) THEN FALSE
    ELSE IF q.min_amount /= None /\ x.amount_cents < Value(q.min_amount) THEN FALSE
    ELSE IF q.max_amount /= None /\ x.amount_cents > Value(q.max_amount) THEN FALSE
    ELSE TRUE

filt(q, x) ==
    IF q.status = Some(Overdue) /\ x.days_overdue <= 0 THEN FALSE
    ELSE IF q.status = Some(Open) /\ x.days_overdue > 0 THEN FALSE
    ELSE IF q.aging_min /= None /\ x.days_overdue < Value(q.aging_min) THEN FALSE
    ELSE IF q.min_amount /= None /\ x.amount_cents < Value(q.min_amount) THEN FALSE
    ELSE IF q.max_amount /= None /\ x.amount_cents > Value(q.max_amount) THEN FALSE
    ELSE TRUE

\* [x for x in enriched if filt(x)]
RECURSIVE Filtered(_, _)
Filtered(q, enriched) ==
    IF enriched = <<>> THEN <<>>
    ELSE IF filt(q, Head(enriched)) THEN <<Head(enriched)>> \o Filtered(q, Tail(enriched))
    ELSE Filtered(q, Tail(enriched))

\* the key the chosen sort ranks by
SortKey(sort, x) ==
    IF sort = "amount_desc" THEN x.amount_cents
    ELSE IF sort = "days_desc" THEN x.days_overdue
    ELSE x.impact

\* an ascending sort turned round: descending, equal keys in reverse row order
RECURSIVE SortDescReversed(_, _, _)
SortDescReversed(sort, xs, placed) ==
    IF xs = <<>> THEN placed
    ELSE LET x == Head(xs)
             ahead == {i \in DOMAIN placed : SortKey(sort, placed[i]) > SortKey(sort, x)}
             n == IF ahead = {} THEN 0 ELSE CHOOSE i \in ahead : \A j \in ahead : j <= i
         IN  SortDescReversed(sort, Tail(xs),
                              SubSeq(placed, 1, n) \o <<x>> \o SubSeq(placed, n + 1, Len(placed)))

\* list.sort(key=..., reverse=True): descending and stable.  Each element goes
\* behind the elements already placed whose key is not smaller.
RECURSIVE SortDesc(_, _, _)
SortDesc(sort, xs, placed) ==
    IF xs = <<>> THEN placed
    ELSE LET x == Head(xs)
             ahead == {i \in DOMAIN placed : SortKey(sort, placed[i]) >= SortKey(sort, x)}
             n == IF ahead = {} THEN 0 ELSE CHOOSE i \in ahead : \A j \in ahead : j <= i
         IN  SortDesc(sort, Tail(xs),
                      SubSeq(placed, 1, n) \o <<x>> \o SubSeq(placed, n + 1, Len(placed)))

\* a slice that stops one element early
SliceDropsLast(xs, offset, limit) == SubSeq(xs, offset + 1, Min(offset + limit - 1, Len(xs)))

\* filtered[offset: offset + limit]
Slice(xs, offset, limit) == SubSeq(xs, offset + 1, Min(offset + limit, Len(xs)))

\* the filtered and sorted list the handler pages
FilteredSorted(q, enriched) == SortDesc(q.sort, Filtered(q, enriched), <<>>)

\* GET /invoices counting the page instead of the filtered list
ListInvoicesCountsPage(rows, now_utc, q) ==
    LET e == Enrich(rows, now_utc, <<>>)
    IN  IF e.raised = "HTTPException"
        THEN [op |-> "list_invoices", status |-> e.status_code, q |-> q, detail |-> e.detail]
        ELSE IF e.raised /= "no"
        THEN [op |-> "list_invoices", status |-> 500, q |-> q, detail |-> e.raised]
        ELSE LET filtered == SortDesc(q.sort, Filtered(q, e.enriched), <<>>)
             IN  [op |-> "list_invoices", status |-> 200, q |-> q,
                  total |-> Len(SubSeq(filtered, q.offset + 1, Min(q.offset + q.limit, Len(filtered)))),
                  page |-> SubSeq(filtered, q.offset + 1, Min(q.offset + q.limit, Len(filtered)))]

\* what GET /invoices answers for a table, an instant and query parameters
ListInvoices(rows, now_utc, q) ==
    LET e == Enrich(rows, now_utc, <<>>)
    IN  IF e.raised = "HTTPException"
        THEN [op |-> "list_invoices", status |-> e.status_code, q |-> q, detail |-> e.detail]
        ELSE IF e.raised /= "no"
        THEN [op |-> "list_invoices", status |-> 500, q |-> q, detail |-> e.raised]
        ELSE LET filtered == FilteredSorted(q, e.enriched)
             IN  [op |-> "list_invoices", status |-> 200, q |-> q,
                  total |-> Len(filtered),
                  page |-> Slice(filtered, q.offset, q.limit)]

\* GET /invoices, answering the request in flight
list_invoices ==
    /\ call.fn = "list_invoices"
    /\ response' = ListInvoices(invoices, now, call.q)
    /\ call' = NoCall
    /\ UNCHANGED <<invoices, invoice_seq, templates, template_seq, now>>

\* The tables as init_db creates them, the invoice table holding no row (the
\* rows init_db seeds into an empty table play no part in what follows; ids and
\* invoice_seq count from the AUTOINCREMENT mark of that moment).
Init ==
    /\ invoices = <<>>
    /\ invoice_seq = 0
    /\ templates = <<>>
    /\ template_seq = 0
    /\ now = 0
    /\ call = NoCall
    /\ response = NoResponse

Next ==
    \/ \E body \in InvoiceIn : create_invoice(body)
    \/ \E id \in 1..MaxInvoiceId, body \in InvoiceIn : update_invoice(id, body)
    \/ \E id \in 1..MaxInvoiceId : delete_invoice(id)
    \/ \E u \in Uploads : import_invoices(u.is_csv_name, u.has_columns, u.csv)

Spec == Init /\ [][Next]_vars

\* ------------------------------------------------- the query on its own
\* GET /invoices changes no table, so it is checked on tables the handlers
\* above can have left behind, at an instant that stays fixed.
DaysAgo(days, ticks) == DueText("aware", TRUE, 0 - (days * TicksPerDay + ticks))

Payload(amount_cents, due_at, status) ==
    [amount_cents |-> amount_cents, due_at |-> due_at, status |-> status]

\* rows whose due_at parses: two that differ in the stored status only, and a
\* larger one that falls due a tick from now
GoodPayloads ==
    { Payload(99000, DaysAgo(45, 1), Open),
      Payload(99000, DaysAgo(45, 1), Overdue),
      Payload(118000, DueText("aware", FALSE, 1), Overdue) }

\* rows whose due_at does not give a number of days
BadPayloads ==
    { Payload(99000, DueText("junk", FALSE, 0), Open),
      Payload(99000, DueText("junk", TRUE, 0), Open),
      Payload(99000, DueText("naive", FALSE, 0), Open) }

NumberAt(i) == <<"N", Digits[i + 1]>>

\* the table holding the given payloads, in rowid order
TableOf(ps) ==
    [i \in DOMAIN ps |-> Row(i, NumberAt(i), ps[i].amount_cents, ps[i].due_at, ps[i].status)]

QueryTables ==
    {TableOf(ps) : ps \in SeqsUpTo(GoodPayloads, MaxRows)}
    \cup {TableOf(ps) : ps \in SeqsUpTo(BadPayloads \cup {Payload(99000, DaysAgo(45, 1), Open)},
                                        MaxMixedRows)}

Queries ==
    { Query(st, ag, mn, mx, so, li, off) :
        st \in {None, Some(Open), Some(Overdue)},
        ag \in {None, Some(30)},
        mn \in {None, Some(100000)},
        mx \in {None, Some(99000)},
        so \in {"amount_desc", "days_desc", "impact_desc", "newest"},
        li \in 1..MaxLimit,
        off \in 0..MaxOffset }

InitQuery ==
    /\ invoices \in QueryTables
    /\ invoice_seq = Len(invoices)
    /\ templates = <<>>
    /\ template_seq = 0
    /\ now = 0
    /\ call \in [fn : {"list_invoices"}, q : Queries]
    /\ response = NoResponse

NextQuery == list_invoices

SpecQuery == InitQuery /\ [][NextQuery]_vars

\* ------------------------------------------------- risk_score on its own
ScoreDays == {0, 1, 3, 4, 11, 30, 60, 119, 120, 121, 1000}
ScoreAmounts == {0, 1, 5000, 20000, 40000, 95000, 145000, 199999, 200000, 200001, 1000000}

\* risk_score(days, amount), answering the call in flight
score_invoice ==
    /\ call.fn = "risk_score"
    /\ response' = [op |-> "risk_score", days |-> call.days, amount |-> call.amount,
                    score |-> risk_score(call.days, call.amount)]
    /\ call' = NoCall
    /\ UNCHANGED <<invoices, invoice_seq, templates, template_seq, now>>

InitScore ==
    /\ invoices = <<>>
    /\ invoice_seq = 0
    /\ templates = <<>>
    /\ template_seq = 0
    /\ now = 0
    /\ call \in [fn : {"risk_score"}, days : ScoreDays, amount : ScoreAmounts]
    /\ response = NoResponse

NextScore == score_invoice

SpecScore == InitScore /\ [][NextScore]_vars

\* -------------------------------------------------------------------- C5
\* the exact sum 0.45 * min(1, days/120) + 0.55 * min(1, amount/200000), in
\* units of 1/4,000,000
ExactSum(days, amount) ==
    15000 * (IF days < 120 THEN days ELSE 120) + 11 * (IF amount < 200000 THEN amount ELSE 200000)

\* C5: risk_score(days, amount) lies in [0.05, 0.95] for non-negative days and
\* amount and never falls when either argument grows; it is the sum
\* 0.45 * min(1, days/120) + 0.55 * min(1, amount/200000) clamped to [0.05, 0.95]
\* and rounded to hundredths (within half a hundredth of the clamped sum), with
\* risk_score(0, 0) = 0.05, (120, 0) = 0.45, (0, 200000) = 0.55, (120, 200000) = 0.95.
C5_ScoreBoundedMonotone ==
    response.op = "risk_score" =>
        LET sum == ExactSum(response.days, response.amount)
            clamped == IF sum < 200000 THEN 200000 ELSE IF sum > 3800000 THEN 3800000 ELSE sum
        IN  /\ response.score >= 5 /\ response.score <= 95
            /\ \A d \in ScoreDays, a \in ScoreAmounts :
                  (response.days <= d /\ response.amount <= a)
                      => response.score <= risk_score(d, a)
            /\ 2 * (40000 * response.score - clamped) <= 40000
            /\ 2 * (clamped - 40000 * response.score) <= 40000
            /\ (response.days = 0 /\ response.amount = 0) => response.score = 5
            /\ (response.days = 120 /\ response.amount = 0) => response.score = 45
            /\ (response.days = 0 /\ response.amount = 200000) => response.score = 55
            /\ (response.days = 120 /\ response.amount = 200000) => response.score = 95

\* a score strictly inside the clamp that lies on a decimal tie: 0.45 * 60 / 120
\* + 0.55 * 40000 / 200000 = 0.335, answered 0.34
C5_Witness ==
    /\ response.op = "risk_score"
    /\ response.days = 60
    /\ response.amount = 40000
    /\ response.score = 34

\* ------------------------------------------------------ e-mail templates
\* the characters [a-zA-Z0-9_] of a placeholder name
NameChars ==
    {"a", "b", "c", "d", "e", "f", "g", "h", "i", "j", "k", "l", "m", "n", "o", "p", "q",
     "r", "s", "t", "u", "v", "w", "x", "y", "z",
     "A", "B", "C", "D", "E", "F", "G", "H", "I", "J", "K", "L", "M", "N", "O", "P", "Q",
     "R", "S", "T", "U", "V", "W", "X", "Y", "Z",
     "0", "1", "2", "3", "4", "5", "6", "7", "8", "9", "_"}

\* a context value: a str or an int (None, which ctxt never holds, has type "NoneType")
StrVal(t) == [type |-> "str", v |-> t]
IntVal(n) == [type |-> "int", v |-> n]

\* the decimal digits of a natural number
RECURSIVE NatText(_)
NatText(n) ==
    IF n < 10 THEN <<Digits[n + 1]>> ELSE NatText(n \div 10) \o <<Digits[(n % 10) + 1]>>

\* str(v)
PyStr(val) ==
    IF val.type = "str" THEN val.v
    ELSE IF val.v < 0 THEN <<"-">> \o NatText(0 - val.v) ELSE NatText(val.v)

\* the digits of n with a comma before every group of three (format ",")
RECURSIVE Grouped(_)
Grouped(n) ==
    IF n < 1000 THEN NatText(n)
    ELSE Grouped(n \div 1000) \o <<",">>
         \o <<Digits[((n \div 100) % 10) + 1], Digits[((n \div 10) % 10) + 1], Digits[(n % 10) + 1]>>

\* f"{(amount_cents/100):,.2f} {code}", amount_cents and currency optional
_format_amount(amount_cents, currency) ==
    IF amount_cents = None THEN <<>>
    ELSE LET a == Value(amount_cents)
             m == IF a < 0 THEN 0 - a ELSE a
             code == IF currency = None \/ currency = Some(<<>>) THEN <<"U", "S", "D">>
                     ELSE Value(currency)
         IN  (IF a < 0 THEN <<"-">> ELSE <<>>)
             \o Grouped(m \div 100) \o <<".">>
             \o <<Digits[((m \div 10) % 10) + 1], Digits[(m % 10) + 1]>>
             \o <<" ">> \o code

StartsWith(s, prefix) ==
    Len(s) >= Len(prefix) /\ SubSeq(s, 1, Len(prefix)) = prefix

\* str.replace(old, new): every occurrence of old, leftmost first, none overlapping
RECURSIVE Replace(_, _, _)
Replace(s, old, new) ==
    IF s = <<>> THEN <<>>
    ELSE IF StartsWith(s, old) THEN new \o Replace(SubSeq(s, Len(old) + 1, Len(s)), old, new)
    ELSE <<Head(s)>> \o Replace(Tail(s), old, new)

\* the length of the match of \{[a-zA-Z0-9_]+\} at the head of s, 0 if none
RECURSIVE NameRun(_, _)
NameRun(s, i) == IF i <= Len(s) /\ s[i] \in NameChars THEN NameRun(s, i + 1) ELSE i
TokenAtHead(s) ==
    IF s /= <<>> /\ Head(s) = "{"
    THEN LET j == NameRun(s, 2)
         IN  IF j > 2 /\ j <= Len(s) /\ s[j] = "}" THEN j ELSE 0
    ELSE 0

\* re.sub(r"\{[a-zA-Z0-9_]+\}", "", s): one pass, left to right
RECURSIVE RemoveTokens(_)
RemoveTokens(s) ==
    IF s = <<>> THEN <<>>
    ELSE IF TokenAtHead(s) > 0 THEN RemoveTokens(SubSeq(s, TokenAtHead(s) + 1, Len(s)))
    ELSE <<Head(s)>> \o RemoveTokens(Tail(s))

\* the for loop of _safe_format over context.items(), a sequence of <<key, value>>
RECURSIVE ReplaceAll(_, _)
ReplaceAll(out, items) ==
    IF items = <<>> THEN out
    ELSE LET k == Head(items)[1]
             v == Head(items)[2]
         IN  ReplaceAll(Replace(out, <<"{">> \o k \o <<"}">>,
                                IF v.type = "NoneType" THEN <<>> ELSE PyStr(v)),
                        Tail(items))

_safe_format(template, context) == RemoveTokens(ReplaceAll(template, context))

\* the keys of the render context
K_customer_name == <<"c", "u", "s", "t", "o", "m", "e", "r", "_", "n", "a", "m", "e">>
K_customer_email == <<"c", "u", "s", "t", "o", "m", "e", "r", "_", "e", "m", "a", "i", "l">>
K_invoice_number == <<"i", "n", "v", "o", "i", "c", "e", "_", "n", "u", "m", "b", "e", "r">>
K_amount_cents == <<"a", "m", "o", "u", "n", "t", "_", "c", "e", "n", "t", "s">>
K_amount_usd == <<"a", "m", "o", "u", "n", "t", "_", "u", "s", "d">>
K_currency == <<"c", "u", "r", "r", "e", "n", "c", "y">>
K_due_date == <<"d", "u", "e", "_", "d", "a", "t", "e">>
K_days_overdue == <<"d", "a", "y", "s", "_", "o", "v", "e", "r", "d", "u", "e">>
K_company_name == <<"c", "o", "m", "p", "a", "n", "y", "_", "n", "a", "m", "e">>
K_today_date == <<"t", "o", "d", "a", "y", "_", "d", "a", "t", "e">>
K_promised_date == <<"p", "r", "o", "m", "i", "s", "e", "d", "_", "d", "a", "t", "e">>
AccountsReceivable == <<"A", "c", "c", "o", "u", "n", "t", "s", " ", "R", "e", "c", "e", "i", "v", "a", "b", "l", "e">>

\* RenderIn
RenderIn(template_id, subject, body, customer_name, customer_email, invoice_number, amount_cents, currency, due_date, days_overdue_val, company_name, promised_date) ==
    [template_id |-> template_id, subject |-> subject, body |-> body,
     customer_name |-> customer_name, customer_email |-> customer_email,
     invoice_number |-> invoice_number, amount_cents |-> amount_cents,
     currency |-> currency, due_date |-> due_date, days_overdue |-> days_overdue_val,
     company_name |-> company_name, promised_date |-> promised_date]

\* x or default, for an optional text
OrText(x, default) == IF x = None \/ x = Some(<<>>) THEN default ELSE Value(x)

\* the dict ctxt of render_template, in insertion order
Ctxt(body, today) ==
    << <<K_customer_name, StrVal(OrText(body.customer_name, <<>>))>>,
       <<K_customer_email, StrVal(OrText(body.customer_email, <<>>))>>,
       <<K_invoice_number, StrVal(OrText(body.invoice_number, <<>>))>>,
       <<K_amount_cents, IF body.amount_cents /= None THEN IntVal(Value(body.amount_cents))
                         ELSE StrVal(<<>>)>>,
       <<K_amount_usd, StrVal(_format_amount(body.amount_cents, body.currency))>>,
       <<K_currency, StrVal(OrText(body.currency, <<"U", "S", "D">>))>>,
       <<K_due_date, StrVal(OrText(body.due_date, <<>>))>>,
       <<K_days_overdue, IF body.days_overdue /= None THEN IntVal(Value(body.days_overdue))
                         ELSE StrVal(<<>>)>>,
       <<K_company_name, StrVal(OrText(body.company_name, AccountsReceivable))>>,
       <<K_today_date, StrVal(today)>>,
       <<K_promised_date, StrVal(OrText(body.promised_date, <<>>))>> >>

\* SELECT subject, body FROM email_templates WHERE id=?
TemplateRows(id) == {i \in DOMAIN templates : templates[i].id = id}

\* what POST /email/render answers
RenderTemplate(body, today) ==
    LET by_id == body.template_id /= None /\ Value(body.template_id) /= 0
        found == IF by_id THEN TemplateRows(Value(body.template_id)) ELSE {}
        ctxt == Ctxt(body, today)
    IN  IF by_id /\ found = {}
        THEN [op |-> "render_template", status |-> 404, request |-> body,
              detail |-> "Template not found"]
        ELSE LET row == templates[CHOOSE i \in found : TRUE]
                 subject == IF by_id THEN row.subject ELSE OrText(body.subject, <<>>)
                 text == IF by_id THEN row.body ELSE OrText(body.body, <<>>)
             IN  [op |-> "render_template", status |-> 200, request |-> body,
                  subject |-> _safe_format(subject, ctxt),
                  body |-> _safe_format(text, ctxt),
                  context |-> ctxt]

\* POST /email/render, answering the request in flight
render_template ==
    /\ call.fn = "render_template"
    /\ response' = RenderTemplate(call.body, call.today)
    /\ call' = NoCall
    /\ UNCHANGED <<invoices, invoice_seq, templates, template_seq, now>>

\* ---------------------------------------------- the renderer on its own
\* POST /email/render changes no table, so it is checked on template tables the
\* template handlers can have left behind.
TemplateRow(id, subject, body) == [id |-> id, subject |-> subject, body |-> body]

SeedSubject == <<"R", "e", "m", "i", "n", "d", "e", "r", ":", " ", "I", "n", "v", "o", "i", "c", "e", " ", "{", "i", "n", "v", "o", "i", "c", "e", "_", "n", "u", "m", "b", "e", "r", "}", " ", "d", "u", "e", " ", "{", "d", "u", "e", "_", "d", "a", "t", "e", "}">>
ScenarioBody == <<"H", "i", " ", "{", "c", "u", "s", "t", "o", "m", "e", "r", "_", "n", "a", "m", "e", "}", ",", " ", "p", "a", "y", " ", "{", "a", "m", "o", "u", "n", "t", "_", "u", "s", "d", "}", " ", "b", "y", " ", "{", "d", "u", "e", "_", "d", "a", "t", "e", "}", ".">>

TemplateTables ==
    { <<>>,
      <<TemplateRow(1, SeedSubject, ScenarioBody)>>,
      <<TemplateRow(1, SeedSubject, ScenarioBody), TemplateRow(2, ScenarioBody, SeedSubject)>> }

\* the pieces literal subjects are put together from
Pieces ==
    { <<"{", "x">>, <<"}">>, <<"{", "z", "z", "}">>, <<"H", "i", " ">>,
      <<"{">> \o K_customer_name \o <<"}">>, <<"{">> \o K_due_date \o <<"}">> }

RECURSIVE Joined(_)
Joined(ps) == IF ps = <<>> THEN <<>> ELSE Head(ps) \o Joined(Tail(ps))

Subjects == {Joined(ps) : ps \in SeqsUpTo(Pieces, MaxPieces)}

RenderBodies ==
    { RenderIn(id, su, None, cn, None, None, am, None, dd, None, None, None) :
        id \in {None, Some(0), Some(1), Some(2)},
        su \in {None} \cup {Some(t) : t \in Subjects},
        cn \in {None, Some(<<"A", "c", "m", "e", " ", "C", "o">>), Some(<<"{">> \o K_due_date \o <<"}">>)},
        am \in {None, Some(145000)},
        dd \in {None, Some(<<"2", "0", "2", "5", "-", "0", "8", "-", "0", "1">>)} }

Today == <<"2", "0", "2", "5", "-", "0", "9", "-", "0", "1">>

InitRender ==
    /\ invoices = <<>>
    /\ invoice_seq = 0
    /\ templates \in TemplateTables
    /\ template_seq = Len(templates)
    /\ now = 0
    /\ call \in [fn : {"render_template"}, body : RenderBodies, today : {Today}]
    /\ response = NoResponse

NextRender == render_template

SpecRender == InitRender /\ [][NextRender]_vars

\* ------------------------------------------------------------ C1 .. C6
Answered == response.op = "list_invoices" /\ response.status = 200

\* the enriched rows of the stored table at the current instant
EnrichedNow == Enrich(invoices, now, <<>>).enriched

\* the ids of the records among e that pass the filters of q
Passing(q, e) == {e[i].id : i \in {j \in DOMAIN e : filt(q, e[j])}}

Paged(q, limit, offset) ==
    ListInvoices(invoices, now, [q EXCEPT !.limit = limit, !.offset = offset])

\* C1: for a fixed table, instant, filters and sort, X-Total-Count is the number
\* of records that pass the filters (a number that limit and offset are no part
\* of), it is the count the first page of one reports, and an offset at or past
\* the end of the filtered set gives an empty page with that same count.
C1_TotalIndependentOfPage ==
    Answered =>
        LET first == Paged(response.q, 1, 0)
            beyond == Paged(response.q, response.q.limit, response.total + response.q.offset)
        IN  /\ response.total = Cardinality(Passing(response.q, EnrichedNow))
            /\ first.status = 200 /\ first.total = response.total
            /\ beyond.status = 200 /\ beyond.total = response.total /\ beyond.page = <<>>
            /\ response.q.offset >= response.total => response.page = <<>>

\* a filtered request that keeps one record of two, asked for far past its end
C1_Witness ==
    /\ Answered
    /\ response.q.max_amount /= None
    /\ response.total = 1
    /\ Len(invoices) = 2
    /\ response.q.offset = MaxOffset
    /\ response.page = <<>>

RECURSIVE ConcatPages(_, _, _, _)
ConcatPages(q, k, i, last) ==
    IF i > last THEN <<>>
    ELSE Paged(q, k, i * k).page \o ConcatPages(q, k, i + 1, last)

NoDuplicates(xs) == \A i, j \in DOMAIN xs : i /= j => xs[i] /= xs[j]

\* C2: for the page size k of the request the pages at offsets 0, k, 2k, ... laid
\* end to end are the whole filtered and sorted sequence: every record that passes the
\* filters once, none twice, in the sorted order; the answered page is the piece
\* of that sequence at its offset.
C2_PagesReconstruct ==
    Answered =>
        LET q == response.q
            e == EnrichedNow
            full == FilteredSorted(q, e)
        IN  /\ ConcatPages(q, q.limit, 0, Len(full) \div q.limit) = full
            /\ {full[i].id : i \in DOMAIN full} = Passing(q, e)
            /\ NoDuplicates([i \in DOMAIN full |-> full[i].id])
            /\ \A i \in DOMAIN response.page :
                  q.offset + i <= Len(full) /\ response.page[i] = full[q.offset + i]
            /\ Len(response.page) = Max(0, Min(q.limit, Len(full) - q.offset))

\* the second page of one: the smaller of two records, sorted behind the first
C2_Witness ==
    /\ Answered
    /\ response.q.limit = 1
    /\ response.q.offset = 1
    /\ response.total = 2
    /\ Len(response.page) = 1
    /\ response.page[1].id = 1

\* a due_at that gives no number of days: not ISO-8601, or without an offset
Unusable(due_at) == due_at.form /= "aware"

\* C3 (as claimed): whenever a stored invoice has a due_at that cannot be used to
\* compute days overdue, GET /invoices answers 400 with the offending due_at in
\* the detail, for every form of bad value.
C3_BadDueAtIs400 ==
    (/\ response.op = "list_invoices"
     /\ \E i \in DOMAIN invoices : Unusable(invoices[i].due_at))
        => /\ response.status = 400
           /\ \E i \in DOMAIN invoices :
                 Unusable(invoices[i].due_at) /\ response.detail = invoices[i].due_at

\* C4: the status filter reads the computed days overdue only.  "open" keeps
\* exactly the records with days_overdue = 0 that pass the other filters,
\* "overdue" exactly those with days_overdue > 0, and two records that differ in
\* the stored status alone are both kept or both dropped.
C4_StatusFilterIsDerived ==
    Answered =>
        LET q == response.q
            e == EnrichedNow
            others == Passing([q EXCEPT !.status = None], e)
            kept == {x.id : x \in Range(FilteredSorted(q, e))}
        IN  /\ q.status = Some(Open) =>
                  kept = {e[i].id : i \in {j \in DOMAIN e : e[j].days_overdue = 0}} \cap others
            /\ q.status = Some(Overdue) =>
                  kept = {e[i].id : i \in {j \in DOMAIN e : e[j].days_overdue > 0}} \cap others
            /\ \A i, j \in DOMAIN invoices :
                  (/\ invoices[i].amount_cents = invoices[j].amount_cents
                   /\ invoices[i].due_at = invoices[j].due_at)
                      => (invoices[i].id \in kept <=> invoices[j].id \in kept)
            /\ response.total = Cardinality(kept)
            /\ \A i \in DOMAIN response.page : response.page[i].id \in kept

\* status=open answered with a record stored as "overdue", while a record
\* stored as "open" that is 45 days late is left out
C4_Witness ==
    /\ Answered
    /\ response.q.status = Some(Open)
    /\ \E i \in DOMAIN response.page : response.page[i].status_raw = Overdue
    /\ \E i \in DOMAIN EnrichedNow :
          /\ EnrichedNow[i].status_raw = Open
          /\ EnrichedNow[i].days_overdue > 0
          /\ \A j \in DOMAIN response.page : response.page[j].id /= EnrichedNow[i].id

\* the key the claim names for a sort value
ClaimedKey(sort, x) ==
    CASE sort = "amount_desc" -> x.amount_cents
      [] sort = "days_desc" -> x.days_overdue
      [] OTHER -> x.impact

\* C6: the sequence that is paged is the stable descending sort of the filtered
\* set by amount_cents ("amount_desc"), days_overdue ("days_desc") or impact
\* ("impact_desc" and every other value, which is no error): keys never rise
\* along it and records of equal key keep their storage row order.
C6_StableDescendingSort ==
    (response.op = "list_invoices" /\ \A i \in DOMAIN invoices : ~Unusable(invoices[i].due_at)) =>
        LET q == response.q
            e == EnrichedNow
            full == FilteredSorted(q, e)
            keys == [i \in DOMAIN full |-> ClaimedKey(q.sort, full[i])]
            passing == Passing(q, e)
        IN  /\ response.status = 200
            /\ \A i, j \in DOMAIN full : i < j => keys[i] >= keys[j]
            /\ \A i, j \in DOMAIN full : (i < j /\ keys[i] = keys[j]) => full[i].id < full[j].id
            /\ {full[i].id : i \in DOMAIN full} = passing
            /\ Len(full) = Cardinality(passing)
            /\ response.page = Slice(full, q.offset, q.limit)
            /\ q.sort \notin {"amount_desc", "days_desc"} =>
                  full = FilteredSorted([q EXCEPT !.sort = "impact_desc"], e)

\* an unrecognized sort value answered by impact: the later row, of the larger
\* impact but the smaller amount, comes out first
C6_Witness ==
    /\ Answered
    /\ response.q.sort = "newest"
    /\ response.q.offset = 0
    /\ response.total = 2
    /\ Len(response.page) = 2
    /\ response.page[1].impact > response.page[2].impact
    /\ response.page[1].amount_cents < response.page[2].amount_cents
    /\ response.page[1].id > response.page[2].id

\* ------------------------------------------------------------ C7 .. C9
Rendered == response.op = "render_template" /\ response.status = 200

\* s holds a token of placeholder syntax: "{", one or more name characters, "}"
HasToken(s) ==
    \E i, j \in DOMAIN s :
        /\ i + 1 < j
        /\ s[i] = "{"
        /\ s[j] = "}"
        /\ \A k \in (i + 1)..(j - 1) : s[k] \in NameChars

\* C7 (as claimed): for every template text and every context the output of
\* _safe_format holds no token of placeholder syntax.
C7_NoPlaceholderInOutput ==
    Rendered => ~HasToken(response.subject) /\ ~HasToken(response.body)

Keys(context) == {context[i][1] : i \in DOMAIN context}
TextOf(context, k) ==
    LET v == context[CHOOSE i \in DOMAIN context : context[i][1] = k][2]
    IN  IF v.type = "NoneType" THEN <<>> ELSE PyStr(v)

\* every placeholder of the template is named in the context
OnlyKnownPlaceholders(template, context) ==
    \A i, j \in DOMAIN template :
        (/\ i + 1 < j
         /\ template[i] = "{"
         /\ template[j] = "}"
         /\ \A k \in (i + 1)..(j - 1) : template[k] \in NameChars)
            => SubSeq(template, i + 1, j - 1) \in Keys(context)

\* the template read once from left to right, each placeholder giving way to the
\* text of its context value and every other character kept
RECURSIVE Expanded(_, _)
Expanded(template, context) ==
    IF template = <<>> THEN <<>>
    ELSE LET close == CHOOSE j \in 1..(Len(template) + 1) :
                          /\ j > 1
                          /\ j = Len(template) + 1 \/ template[j] \notin NameChars
                          /\ \A k \in 2..(j - 1) : template[k] \in NameChars
         IN  IF /\ Head(template) = "{" /\ close > 2 /\ close <= Len(template)
                /\ template[close] = "}"
                /\ SubSeq(template, 2, close - 1) \in Keys(context)
             THEN TextOf(context, SubSeq(template, 2, close - 1))
                  \o Expanded(SubSeq(template, close + 1, Len(template)), context)
             ELSE <<Head(template)>> \o Expanded(Tail(template), context)

\* the subject template a request renders
SubjectTemplate(request) ==
    IF request.template_id = None
    THEN OrText(request.subject, <<>>)
    ELSE templates[CHOOSE i \in DOMAIN templates : templates[i].id = Value(request.template_id)].subject

\* C8 (as claimed): a template whose placeholders are all named in the context
\* renders to its literal text with every placeholder occurrence replaced by the
\* text of its context value, verbatim and in place, for every context value.
C8_KnownPlaceholdersVerbatim ==
    (/\ Rendered
     /\ response.request.template_id = None \/ TemplateRows(Value(response.request.template_id)) /= {}
     /\ OnlyKnownPlaceholders(SubjectTemplate(response.request), response.context))
        => response.subject = Expanded(SubjectTemplate(response.request), response.context)

\* C9 (as claimed): render_template called with any integer template_id that no
\* stored template has answers 404 and renders nothing.
C9_MissingTemplateIs404 ==
    (/\ response.op = "render_template"
     /\ response.request.template_id /= None
     /\ TemplateRows(Value(response.request.template_id)) = {})
        => response.status = 404

\* ------------------------------------------------------------------ C10
NoDuplicateNumbers ==
    \A i, j \in DOMAIN invoices : i /= j => invoices[i].number /= invoices[j].number

\* a create whose number is already stored: 400, table untouched
CreateDuplicateRejected ==
    (response'.op = "create_invoice" /\ response'.body.number \in NumbersOf(invoices))
        => (response'.status = 400 /\ invoices' = invoices)

\* an update that would give a row the number of another row: 400, table untouched
UpdateDuplicateRejected ==
    (/\ response'.op = "update_invoice"
     /\ response'.id \in IdsOf(invoices)
     /\ \E k \in DOMAIN invoices :
            invoices[k].id /= response'.id /\ invoices[k].number = response'.body.number)
        => (response'.status = 400 /\ invoices' = invoices)

\* the rows of the file the import loop does not skip, as <<position, values>>
ValidCsv(csv) == {k \in DOMAIN csv : RowValues(csv[k]).ok}

\* an import: stored rows keep their place, id and number; every distinct new
\* number adds one row; the last valid row of a number decides its values
ImportUpserts ==
    (response'.op = "import_invoices" /\ response'.status = 200) =>
        LET csv == response'.csv
            valid == ValidCsv(csv)
            numbers == {RowValues(csv[k]).number : k \in valid}
        IN  /\ Len(invoices') = Len(invoices) + Cardinality(numbers \ NumbersOf(invoices))
            /\ \A i \in DOMAIN invoices :
                   /\ invoices'[i].id = invoices[i].id
                   /\ invoices'[i].number = invoices[i].number
                   /\ invoices[i].number \notin numbers => invoices'[i] = invoices[i]
            /\ \A k \in valid :
                   (\A m \in valid : m > k => RowValues(csv[m]).number /= RowValues(csv[k]).number)
                       => \E i \in DOMAIN invoices' :
                              /\ invoices'[i].number = RowValues(csv[k]).number
                              /\ invoices'[i].amount_cents = RowValues(csv[k]).amount_cents
                              /\ invoices'[i].status = RowValues(csv[k]).status
            /\ response'.rows_processed = Cardinality(valid)

\* C10: after any sequence of create_invoice, update_invoice, delete_invoice and
\* import_invoices no two stored invoices share a number; a create or update that
\* would duplicate a number answers 400 and leaves the table as it was; an
\* imported row whose number is stored updates that invoice in place (same id,
\* same row count) and any other valid row adds exactly one invoice.
C10_UniqueNumbers ==
    /\ []NoDuplicateNumbers
    /\ [][CreateDuplicateRejected /\ UpdateDuplicateRejected /\ ImportUpserts]_vars

\* an import of one valid row whose number was stored before it: the row it
\* updated is followed by a younger row, so the import did not add it
C10_Witness ==
    /\ response.op = "import_invoices"
    /\ response.status = 200
    /\ Len(response.csv) = 1
    /\ response.rows_processed = 1
    /\ \E i, j \in DOMAIN invoices :
          /\ i < j
          /\ invoices[i].number = RowValues(response.csv[1]).number
          /\ invoices[i].amount_cents = RowValues(response.csv[1]).amount_cents
====
